---- MODULE Spec2Model ----
(***************************************************************************)
(* Agent-based SIR / SIS epidemic simulation (src/sir.py, src/sis.py).     *)
(*                                                                         *)
(* An agent is the Python list [state, x, y]; it is identified here by its *)
(* index in `people`, and the lists `infected`, `new_infected`, `recover`  *)
(* hold such indices (Python object references).  list.remove compares by  *)
(* VALUE ([state, x, y] == [state, x, y]), which RemoveFirstEqual keeps.   *)
(*                                                                         *)
(* Probabilities are in percent (infect_rate 0.8 is 80); random.random()   *)
(* returns a value of DrawValues (0.0, 0.5, 0.99).                         *)
(***************************************************************************)
EXTENDS Integers, Sequences, FiniteSets, TLC

VARIABLES
    variant,             \* "SIR" (create_SIR_simulation) or "SIS" (create_SIS_simulation)
    width, height,       \* arguments width, height
    number_of_people,    \* argument number_of_people
    num_infected,        \* argument num_infected
    infect_rate,         \* argument infect_rate, in percent
    recover_rate,        \* argument recover_rate, in percent
    max_days,            \* argument max_days
    arg_infect_distance, \* argument infect_distance as passed by the caller
    arg_max_move,        \* argument max_move as passed by the caller
    infect_distance,     \* the local infect_distance that step and the run loop read
    max_move,            \* the local max_move that move_all reads
    people,              \* list of agents [state, x, y]
    infected,            \* list of references (indices into people)
    step_count,
    recovered_amount,
    recover,             \* the list recover of the last call of step (references)
    simulated_S, simulated_I, simulated_R,
    t,                   \* the time points the compartmental model is solved at
    ode_y,               \* argument y of a call of sir_model / sis_model
    dy_dt,               \* the list that call returned
    label,               \* an AnimatedGIFLabel: frames, current_frame, is_paused, after_id
    tk,                  \* Tk's timers: the scheduled callbacks and the last id issued
    pc                   \* position of the run: "loop", "move", "record", "done"

config == <<variant, width, height, number_of_people, num_infected, infect_rate,
            recover_rate, max_days, arg_infect_distance, arg_max_move,
            infect_distance, max_move>>

vars == <<variant, width, height, number_of_people, num_infected, infect_rate,
          recover_rate, max_days, arg_infect_distance, arg_max_move,
          infect_distance, max_move, people, infected, step_count,
          recovered_amount, recover, simulated_S, simulated_I, simulated_R, t,
          ode_y, dy_dt, label, tk, pc>>

\* the state outside the simulation run
outside == <<ode_y, dy_dt, label, tk>>

\* no call of the compartmental model is in progress and no label exists
Idle ==
    /\ ode_y = <<>> /\ dy_dt = <<>>
    /\ label = [frames |-> <<>>, current_frame |-> 0, is_paused |-> FALSE, after_id |-> 0]
    /\ tk = [scheduled |-> {}, count |-> 0]

----------------------------------------------------------------------------
\* Bounds of the model

\* largest population (number_of_people) of a run
MaxPeople == 3

\* largest day cap (max_days) of a run
MaxDays == 1

\* population of the single-day runs on a wide area
GridPeople == 3

\* largest population of the runs checked for termination
FairPeople == 2

\* sampled results of random.random(), in percent: 0.0, 0.5, 0.99
DrawValues == {0, 50, 99}

\* sampled <<infect_rate, recover_rate>>, in percent
RatePairs == {0, 50, 100} \X {0, 50, 100}

\* num_infected for a population of n: every count, and one too many
SeedCounts(n) == 0..(n + 1)

\* side of the wide area
GridSide == 20

\* population of the runs checked for movement
MovePeople == 1

\* largest side of the area of the runs checked for movement
MoveSide == 6

\* sampled sides of that area: the two smallest and the largest
MoveSides == {1, 2, MoveSide}

\* sampled max_move arguments
MoveValues == {0, 1, 2}

\* largest number of frames of a GIF
MaxFrames == 4

\* largest number of timers a label schedules
MaxTimers == 8

\* largest component of a point y the compartmental model is evaluated at
OdeCount == 2

\* sampled components of y: a solver may ask for points below 0
OdeValues == (0 - 1)..OdeCount

\* sampled values, in percent, of 1 - b ** e for 0 < b < 1 and e > 0 (a real
\* number strictly between 0 and 1)
PartialValues == {1, 50, 99}

\* sampled values, in percent, of 1 - b ** e for 0 < b < 1 and e < 0 (a
\* negative real number)
NegativeValues == {0 - 300, 0 - 1}

\* sampled infect_distance arguments
DistanceValues == {2, 10}

\* sampled sides of the small area (width and height)
AreaSides == {1, 2}

----------------------------------------------------------------------------
\* Program constants

\* sis.py line 95: infect_distance = 10 overwrites the argument
SIS_infect_distance == 10

\* sis.py line 96: max_move = 5 overwrites the argument
SIS_max_move == 5

----------------------------------------------------------------------------
\* Helpers of the simulation

\* mutant of Bernoulli: random.random() <= rate
Bernoulli_inclusive(rate) == {u <= rate : u \in DrawValues}

\* random.random() < rate, for each sampled draw
Bernoulli(rate) == {u < rate : u \in DrawValues}

\* mutant of SeedOutcomes: random.random() <= num_infected / number_of_people
SeedOutcomes_inclusive(k, n) == {u * n <= 100 * k : u \in DrawValues}

\* random.random() < num_infected / number_of_people
SeedOutcomes(k, n) == {u * n < 100 * k : u \in DrawValues}

\* find_distance(p1, p2) ** 2: the squared Euclidean distance
find_distance_sq(p1, p2) ==
    LET x_diff == p1.x - p2.x
        y_diff == p1.y - p2.y
    IN  (x_diff * x_diff) + (y_diff * y_diff)

\* find_distance(i, p) < infect_distance
InRange(p1, p2, dist) == dist > 0 /\ find_distance_sq(p1, p2) < dist * dist

\* get_cell: x // cell_size, y // cell_size (floor division, cell_size > 0)
get_cell(x, y, cell_size) == <<x \div cell_size, y \div cell_size>>

\* the indices 1..n as a list
RECURSIVE Indices(_)
Indices(n) == IF n = 0 THEN <<>> ELSE Append(Indices(n - 1), n)

\* populate_grid: grid[cell] is the list of the agents of that cell, in the
\* order of people
populate_grid(ppl, cell_size) ==
    LET cellOf(k) == get_cell(ppl[k].x, ppl[k].y, cell_size)
        InCell(c) == LET Test(k) == cellOf(k) = c
                     IN  SelectSeq(Indices(Len(ppl)), Test)
    IN  [c \in {cellOf(k) : k \in 1..Len(ppl)} |-> InCell(c)]

\* mutant of BlockOffsets: the four diagonal cells are not visited
BlockOffsets_noDiagonals == << <<-1, 0>>, <<0, -1>>, <<0, 0>>, <<0, 1>>, <<1, 0>> >>

\* the order in which step visits the 3x3 block: dx outer, dy inner
BlockOffsets == << <<-1, -1>>, <<-1, 0>>, <<-1, 1>>,
                   << 0, -1>>, << 0, 0>>, << 0, 1>>,
                   << 1, -1>>, << 1, 0>>, << 1, 1>> >>

\* the agents step reaches from infected agent i: the lists of the cells of the
\* 3x3 block around i's cell that are in the grid, concatenated in visit order
RECURSIVE BlockScan(_, _, _)
BlockScan(grid, cell, k) ==
    IF k = 0 THEN <<>>
    ELSE LET neighbor_cell == <<cell[1] + BlockOffsets[k][1], cell[2] + BlockOffsets[k][2]>>
         IN  BlockScan(grid, cell, k - 1) \o
             (IF neighbor_cell \in DOMAIN grid THEN grid[neighbor_cell] ELSE <<>>)

neighbors_of(ppl, grid, i, cell_size) ==
    BlockScan(grid, get_cell(ppl[i].x, ppl[i].y, cell_size), Len(BlockOffsets))

\* mutant of RecoveredState: the SIS assignment i[0] = 'S' in the SIR step too
RecoveredState_alwaysS == "S"

\* what a recovering agent's state becomes: sir.py line 161, sis.py line 159
RecoveredState == IF variant = "SIR" THEN "R" ELSE "S"

\* mutant of Exposed: the test p[0] != 'I' in place of p[0] == 'S'
Exposed_notInfected(ppl, grid, i, dist) ==
    LET Test(p) == ppl[p].state # "I" /\ InRange(ppl[i], ppl[p], dist)
    IN  SelectSeq(neighbors_of(ppl, grid, i, dist), Test)

\* the candidates of infected agent i that reach the draw of line 154: those of
\* the 3x3 block that are 'S' and closer than infect_distance, in visit order
Exposed(ppl, grid, i, dist) ==
    LET Test(p) == ppl[p].state = "S" /\ InRange(ppl[i], ppl[p], dist)
    IN  SelectSeq(neighbors_of(ppl, grid, i, dist), Test)

\* the elements of list s whose draw succeeded
Pick(s, drawn) ==
    LET Test(k) == drawn[k]
        kept == SelectSeq(Indices(Len(s)), Test)
    IN  [k \in 1..Len(kept) |-> s[kept[k]]]

\* mutant of Visit: the recovery is written through the inner loop's variable,
\* p[0] = 'R' for the agent caught last, when one was caught
Visit_recoversLastCaught(st, i, caught, rec) ==
    LET caughtSet == {caught[k] : k \in 1..Len(caught)}
        target == IF caught = <<>> THEN i ELSE caught[Len(caught)]
        ppl1 == [p \in 1..Len(st.people) |->
                   IF p \in caughtSet
                   THEN [st.people[p] EXCEPT !.state = "I"]
                   ELSE st.people[p]]
        ppl2 == IF rec THEN [ppl1 EXCEPT ![target].state = RecoveredState] ELSE ppl1
    IN  [people       |-> ppl2,
         new_infected |-> st.new_infected \o caught,
         recover      |-> IF rec THEN Append(st.recover, i) ELSE st.recover]

\* One iteration of `for i in infected` in step, st = [people, new_infected,
\* recover]: `caught` are the exposed candidates whose draw
\* random.random() < infect_rate succeeded, rec is the outcome of
\* random.random() < recover_rate
Visit(st, i, caught, rec) ==
    LET caughtSet == {caught[k] : k \in 1..Len(caught)}
        ppl1 == [p \in 1..Len(st.people) |->
                   IF p \in caughtSet
                   THEN [st.people[p] EXCEPT !.state = "I"]
                   ELSE st.people[p]]
        ppl2 == IF rec THEN [ppl1 EXCEPT ![i].state = RecoveredState] ELSE ppl1
    IN  [people       |-> ppl2,
         new_infected |-> st.new_infected \o caught,
         recover      |-> IF rec THEN Append(st.recover, i) ELSE st.recover]

\* every result of one iteration, over the outcomes of its draws (the list of
\* exposed candidates is bound once, as a value)
VisitOutcomes(st, grid, i) ==
    UNION {{Visit(st, i, Pick(exposed, drawn), rec) :
               drawn \in [1..Len(exposed) -> Bernoulli(infect_rate)],
               rec \in Bernoulli(recover_rate)} :
           exposed \in {Exposed(st.people, grid, i, infect_distance)}}

\* the loop `for i in infected`: every state it can end in
RECURSIVE InfectedLoop(_, _, _, _)
InfectedLoop(sts, grid, inf, k) ==
    IF k > Len(inf) THEN sts
    ELSE InfectedLoop(UNION {VisitOutcomes(st, grid, inf[k]) : st \in sts},
                      grid, inf, k + 1)

\* infected.remove(r): drops the first element EQUAL to r ([state, x, y] compared
\* by value)
RECURSIVE RemoveFirstEqual(_, _, _)
RemoveFirstEqual(inf, ppl, r) ==
    IF inf = <<>> THEN <<>>
    ELSE IF ppl[Head(inf)] = ppl[r] THEN Tail(inf)
    ELSE <<Head(inf)>> \o RemoveFirstEqual(Tail(inf), ppl, r)

\* `for r in recover: infected.remove(r)`
RECURSIVE RemoveRecovered(_, _, _)
RemoveRecovered(inf, ppl, recovering) ==
    IF recovering = <<>> THEN inf
    ELSE RemoveRecovered(RemoveFirstEqual(inf, ppl, Head(recovering)), ppl, Tail(recovering))

\* step(people, infected, cell_size): every result it can return, as
\* [people, infected, recovered_num], with its local list recover (the grid is
\* built once, as a value)
StepOutcomes(ppl, inf, cell_size) ==
    UNION {{[people        |-> e.people,
             infected      |-> RemoveRecovered(inf, e.people, e.recover) \o e.new_infected,
             recovered_num |-> Len(e.recover),
             recover       |-> e.recover] :
               e \in InfectedLoop({[people |-> ppl, new_infected |-> <<>>, recover |-> <<>>]},
                                  grid, inf, 1)} :
           grid \in {populate_grid(ppl, cell_size)}}

\* mutant of Clamp: the coordinate is kept inside [0, dim]
Clamp_toEdge(c, dim) ==
    LET c1 == IF c < 0 THEN 0 ELSE c
    IN  IF c1 > dim THEN dim ELSE c1

\* the two clamps of move_all, in the order of the code
Clamp(c, dim) ==
    LET c1 == IF c < 1 THEN 1 ELSE c
    IN  IF c1 > dim - 1 THEN dim - 1 ELSE c1

\* random.randint(a, b): any integer of [a, b]
randint(a, b) == a..b

\* every value one coordinate can take in move_all
MoveCoord(c, dim) == {Clamp(c + off, dim) : off \in randint(max_move * (-1), max_move)}

\* move_all(people): every population it can leave
MoveOutcomes(ppl) ==
    LET P  == 1..Len(ppl)
        Xs == UNION {MoveCoord(ppl[p].x, width) : p \in P}
        Ys == UNION {MoveCoord(ppl[p].y, height) : p \in P}
    IN  {[p \in P |-> [state |-> ppl[p].state, x |-> nx[p], y |-> ny[p]]] :
            nx \in {f \in [P -> Xs] : \A p \in P : f[p] \in MoveCoord(ppl[p].x, width)},
            ny \in {f \in [P -> Ys] : \A p \in P : f[p] \in MoveCoord(ppl[p].y, height)}}

----------------------------------------------------------------------------
\* Construction: sir.py lines 95-105 and 182-184, sis.py lines 90-103 and 180-182

\* the agents whose state is st, in the order of people
Members(ppl, st) ==
    LET Test(k) == ppl[k].state = st
    IN  SelectSeq(Indices(Len(ppl)), Test)

\* the loop `for _ in range(number_of_people)` with the agents placed on the
\* positions of `places`, then the locals of lines 182-184
Construct(places) ==
    /\ infect_distance = IF variant = "SIS" THEN SIS_infect_distance ELSE arg_infect_distance
    /\ max_move = IF variant = "SIS" THEN SIS_max_move ELSE arg_max_move
    /\ \E seeded \in [1..number_of_people -> SeedOutcomes(num_infected, number_of_people)],
          at \in [1..number_of_people -> places] :
            people = [p \in 1..number_of_people |->
                        [state |-> IF seeded[p] THEN "I" ELSE "S",
                         x |-> at[p][1], y |-> at[p][2]]]
    /\ infected = Members(people, "I")
    /\ step_count = 0
    /\ recovered_amount = 0
    /\ recover = <<>>
    /\ simulated_S = <<number_of_people - num_infected>>
    /\ simulated_I = <<num_infected>>
    /\ simulated_R = IF variant = "SIR" THEN <<0>> ELSE <<>>
    /\ t = <<>>
    /\ Idle
    /\ pc = "loop"

\* sampled results of random.randint(0, width), random.randint(0, height): the
\* two ends of both ranges
Corners == {<<0, 0>>, <<width, height>>}

\* A run on a small area of at most n agents, for every sampled configuration;
\* num_infected may exceed number_of_people
RunInit(n) ==
    /\ variant \in {"SIR", "SIS"}
    /\ width \in AreaSides
    /\ height = width
    /\ number_of_people \in 1..n
    /\ num_infected \in SeedCounts(number_of_people)
    /\ \E rates \in RatePairs : infect_rate = rates[1] /\ recover_rate = rates[2]
    /\ max_days \in 0..MaxDays
    /\ arg_infect_distance = 2
    /\ arg_max_move = 1
    /\ Construct(Corners)

Init == RunInit(MaxPeople)

----------------------------------------------------------------------------
\* The run loop: sir.py lines 185-200, sis.py lines 183-198

\* mutant of LoopCondition: `while len(infected) > 0:` without the day cap
LoopCondition_noDayCap == Len(infected) > 0

\* the condition of the while loop
LoopCondition == Len(infected) > 0 /\ step_count <= max_days

\* the while condition holds: step_count += 1, then step(...)
Step ==
    /\ pc = "loop"
    /\ LoopCondition
    /\ step_count' = step_count + 1
    /\ \E r \in StepOutcomes(people, infected, infect_distance) :
          /\ people' = r.people
          /\ infected' = r.infected
          /\ recovered_amount' = r.recovered_num
          /\ recover' = r.recover
    /\ pc' = "move"
    /\ UNCHANGED <<config, outside, simulated_S, simulated_I, simulated_R, t>>

\* mutant of MoveAll: move_all also rebuilds the infected list from the
\* agents in state 'I'
MoveAll_rebuildsInfected ==
    /\ pc = "move"
    /\ people' \in MoveOutcomes(people)
    /\ infected' = Members(people, "I")
    /\ pc' = "record"
    /\ UNCHANGED <<config, outside, step_count, recovered_amount, recover,
                   simulated_S, simulated_I, simulated_R, t>>

\* move_all(people)
MoveAll ==
    /\ pc = "move"
    /\ people' \in MoveOutcomes(people)
    /\ pc' = "record"
    /\ UNCHANGED <<config, outside, infected, step_count, recovered_amount, recover,
                   simulated_S, simulated_I, simulated_R, t>>

Last(s) == s[Len(s)]

\* mutant of Record: simulated_S appended as number_of_people - simulated_I[-1]
\* in SIR too
Record_forgetsRecovered ==
    /\ pc = "record"
    /\ simulated_R' = IF variant = "SIR"
                      THEN Append(simulated_R, simulated_R[Len(simulated_R)] + recovered_amount)
                      ELSE simulated_R
    /\ simulated_I' = Append(simulated_I, Len(infected))
    /\ simulated_S' = Append(simulated_S, number_of_people - Len(infected))
    /\ pc' = "loop"
    /\ UNCHANGED <<config, outside, people, infected, step_count, recovered_amount, recover, t>>

\* the three appends that close the loop body
Record ==
    /\ pc = "record"
    /\ simulated_R' = IF variant = "SIR"
                      THEN Append(simulated_R, Last(simulated_R) + recovered_amount)
                      ELSE simulated_R
    /\ simulated_I' = Append(simulated_I, Len(infected))
    /\ simulated_S' = IF variant = "SIR"
                      THEN Append(simulated_S, number_of_people - Last(simulated_I') - Last(simulated_R'))
                      ELSE Append(simulated_S, number_of_people - Last(simulated_I'))
    /\ pc' = "loop"
    /\ UNCHANGED <<config, outside, people, infected, step_count, recovered_amount, recover, t>>

\* mutant of linspace: one sample fewer, as np.linspace(0, days, days) of
\* graph_sir would give for days = step_count
linspace_oneShort(start, stop, num) ==
    [k \in 1..(num - 1) |->
        IF num = 2 THEN [n |-> start, d |-> 1]
        ELSE [n |-> start * (num - 2) + (k - 1) * (stop - start), d |-> num - 2]]

\* np.linspace(start, stop, num) for integers start, stop and num >= 1: num
\* evenly spaced samples from start to stop, both included ([start] for
\* num = 1); a sample is the fraction n / d
linspace(start, stop, num) ==
    [k \in 1..num |->
        IF num = 1 THEN [n |-> start, d |-> 1]
        ELSE [n |-> start * (num - 1) + (k - 1) * (stop - start), d |-> num - 1]]

\* S_model, I_model (R_model) = solution.T: odeint returns one row per
\* element of t, the first being initial_conditions; this is their length
model_length == Len(t)

\* the while condition fails: the loop is left and the compartmental model is
\* solved on t = np.linspace(0, step_count + 1, step_count + 1)
Finish ==
    /\ pc = "loop"
    /\ ~LoopCondition
    /\ t' = linspace(0, step_count + 1, step_count + 1)
    /\ pc' = "done"
    /\ UNCHANGED <<config, outside, people, infected, step_count, recovered_amount, recover,
                   simulated_S, simulated_I, simulated_R>>

Next == Step \/ MoveAll \/ Record \/ Finish

Spec == Init /\ [][Next]_vars

\* The runs of smaller populations, checked for termination
FairInit == RunInit(FairPeople)

\* the run is one sequential process: it never stops before the loop is left
FairSpec == FairInit /\ [][Next]_vars /\ WF_vars(Next)

----------------------------------------------------------------------------
\* The first day of a run on a wide area: the population that step receives is
\* any population of 'S' and 'I' agents on the sampled positions.

\* sampled positions around the cell borders of a grid of cell size d: two
\* agents can share a position, be closer than d in the same cell or in an
\* adjacent (also diagonal) cell, be in the 3x3 block but not closer than d, or
\* be outside the block
GridPlaces(d) == {<<d - 1, d - 1>>, <<d, d>>, <<2 * d - 1, d>>, <<2 * d, d - 1>>}

GridInit ==
    /\ variant \in {"SIR", "SIS"}
    /\ width = GridSide
    /\ height = GridSide
    /\ number_of_people = GridPeople
    /\ num_infected = 1
    /\ \E rates \in RatePairs : infect_rate = rates[1] /\ recover_rate = rates[2]
    /\ max_days = 0
    /\ arg_infect_distance \in DistanceValues
    /\ arg_max_move = 1
    /\ Construct(GridPlaces(infect_distance))

GridNext == Step \/ Finish

GridSpec == GridInit /\ [][GridNext]_vars

----------------------------------------------------------------------------
\* The compartmental model: sir.py lines 11-24, sis.py lines 12-24.  Rates are
\* in percent and arithmetic is exact; accurate_beta, a real number computed
\* from pi and a power, is any value of the range the code's expression lies
\* in.

\* accurate_beta = 1 - (1 - beta) ** (circle_probability * I), in percent, for
\* 0 <= beta <= 1: every value it can have.  The exponent has the sign of
\* radius * radius * I / area; a power with exponent 0 is 1, 1 ** e is 1,
\* 0.0 ** e is 0 for e > 0 and raises ZeroDivisionError for e < 0 (no value)
accurate_beta(beta, radius, dimensions, I) ==
    LET exponent == radius * radius * I * dimensions[1] * dimensions[2]
    IN  IF exponent = 0 \/ beta = 0 THEN {0}
        ELSE IF beta = 100 THEN (IF exponent > 0 THEN {100} ELSE {})
        ELSE IF exponent > 0 THEN PartialValues
        ELSE NegativeValues

\* sir_model(y, t, beta, gamma, radius, dimensions): every list it can return
sir_model(yy, beta, gamma, radius, dimensions) ==
    {<<0 - (ab * yy[1]), (ab * yy[1]) - (gamma * yy[2]), gamma * yy[2]>> :
        ab \in accurate_beta(beta, radius, dimensions, yy[2])}

\* mutant of sis_model: dS_dt as in sir_model, without the flow gamma * I back
\* to S
sis_model_noReturnFlow(yy, beta, gamma, radius, dimensions) ==
    {<<0 - (ab * yy[1]), (ab * yy[1]) - (gamma * yy[2])>> :
        ab \in accurate_beta(beta, radius, dimensions, yy[2])}

\* sis_model(y, t, beta, gamma, radius, dimensions): every list it can return
sis_model(yy, beta, gamma, radius, dimensions) ==
    {<<(0 - (ab * yy[1])) + (gamma * yy[2]), (ab * yy[1]) - (gamma * yy[2])>> :
        ab \in accurate_beta(beta, radius, dimensions, yy[2])}

\* A call of the model by the solver, with the arguments of sir.py line 211 /
\* sis.py lines 208-209, at any sampled point y; no run is in progress
OdeInit ==
    /\ variant \in {"SIR", "SIS"}
    /\ width \in AreaSides
    /\ height \in AreaSides
    /\ number_of_people = OdeCount
    /\ num_infected = 0
    /\ \E rates \in RatePairs : infect_rate = rates[1] /\ recover_rate = rates[2]
    /\ max_days = 0
    /\ arg_infect_distance \in DistanceValues
    /\ arg_max_move = 1
    /\ infect_distance = IF variant = "SIS" THEN SIS_infect_distance ELSE arg_infect_distance
    /\ max_move = IF variant = "SIS" THEN SIS_max_move ELSE arg_max_move
    /\ people = <<>> /\ infected = <<>> /\ recover = <<>>
    /\ step_count = 0 /\ recovered_amount = 0
    /\ simulated_S = <<>> /\ simulated_I = <<>> /\ simulated_R = <<>>
    /\ t = <<>>
    /\ ode_y \in [1..(IF variant = "SIR" THEN 3 ELSE 2) -> OdeValues]
    /\ dy_dt = <<>>
    /\ label = [frames |-> <<>>, current_frame |-> 0, is_paused |-> FALSE, after_id |-> 0]
    /\ tk = [scheduled |-> {}, count |-> 0]
    /\ pc = "solve"

\* the solver calls sir_model / sis_model at y
Evaluate ==
    /\ pc = "solve"
    /\ dy_dt' \in (IF variant = "SIR"
                   THEN sir_model(ode_y, infect_rate, recover_rate, infect_distance,
                                  <<width, height>>)
                   ELSE sis_model(ode_y, infect_rate, recover_rate, infect_distance,
                                  <<width, height>>))
    /\ pc' = "solved"
    /\ UNCHANGED <<config, ode_y, label, tk, people, infected, step_count,
                   recovered_amount, recover, simulated_S, simulated_I, simulated_R, t>>

OdeSpec == OdeInit /\ [][Evaluate]_vars

----------------------------------------------------------------------------
\* AnimatedGIFLabel: interface_comparison.py lines 7-72.  A world w is the
\* label with Tk's timers, [label, tk]; after_id None is 0, and Tk's after
\* issues the ids 1, 2, ...; Tk runs one callback or one button command at a
\* time.

\* _schedule_next_frame: self.after_id = self.after(self.delay, self._animate)
\* unless paused
schedule_next_frame(w) ==
    IF ~w.label.is_paused
    THEN [label |-> [w.label EXCEPT !.after_id = w.tk.count + 1],
          tk    |-> [scheduled |-> w.tk.scheduled \cup {w.tk.count + 1},
                     count     |-> w.tk.count + 1]]
    ELSE w

\* _animate: the next frame, then the next timer
animate(w) ==
    schedule_next_frame(
        [w EXCEPT !.label.current_frame = (@ + 1) % Len(w.label.frames)])

\* mutant of pause: the pending timer is not cancelled
pause_noCancel(w) ==
    IF ~w.label.is_paused THEN [w EXCEPT !.label.is_paused = TRUE] ELSE w

\* pause: is_paused = True and the timer of after_id is cancelled
pause(w) ==
    IF ~w.label.is_paused
    THEN IF w.label.after_id # 0
         THEN [label |-> [w.label EXCEPT !.is_paused = TRUE, !.after_id = 0],
               tk    |-> [w.tk EXCEPT !.scheduled = @ \ {w.label.after_id}]]
         ELSE [w EXCEPT !.label.is_paused = TRUE]
    ELSE w

\* resume
resume(w) ==
    IF w.label.is_paused
    THEN schedule_next_frame([w EXCEPT !.label.is_paused = FALSE])
    ELSE w

\* refresh: pause(), frame 0, unpause, schedule
refresh(w) ==
    schedule_next_frame(
        [pause(w) EXCEPT !.label.current_frame = 0, !.label.is_paused = FALSE])

\* __init__ for a GIF of n >= 1 frames: the first frame is shown and the first
\* timer scheduled
NewLabel(n) ==
    schedule_next_frame(
        [label |-> [frames |-> Indices(n), current_frame |-> 0,
                    is_paused |-> FALSE, after_id |-> 0],
         tk    |-> [scheduled |-> {}, count |-> 0]])

world == [label |-> label, tk |-> tk]

\* the window with one label of a GIF of 1..MaxFrames frames; no run and no
\* model call is in progress
LabelInit ==
    /\ variant = "SIR"
    /\ width = 1 /\ height = 1
    /\ number_of_people = 1 /\ num_infected = 0
    /\ infect_rate = 0 /\ recover_rate = 0
    /\ max_days = 0
    /\ arg_infect_distance = 2 /\ arg_max_move = 1
    /\ infect_distance = 2 /\ max_move = 1
    /\ people = <<>> /\ infected = <<>> /\ recover = <<>>
    /\ step_count = 0 /\ recovered_amount = 0
    /\ simulated_S = <<>> /\ simulated_I = <<>> /\ simulated_R = <<>>
    /\ t = <<>> /\ ode_y = <<>> /\ dy_dt = <<>>
    /\ \E n \in 1..MaxFrames : label = NewLabel(n).label /\ tk = NewLabel(n).tk
    /\ pc = "mainloop"

run == <<config, people, infected, step_count, recovered_amount, recover,
         simulated_S, simulated_I, simulated_R, t, ode_y, dy_dt, pc>>

\* the label and the timers become those of world w2
Becomes(w2) ==
    /\ label' = w2.label
    /\ tk' = w2.tk
    /\ UNCHANGED run

\* a scheduled timer fires: Tk drops it and calls _animate
Fire ==
    /\ pc = "mainloop" /\ tk.count < MaxTimers
    /\ \E id \in tk.scheduled :
          Becomes(animate([world EXCEPT !.tk.scheduled = @ \ {id}]))

\* the buttons: on_pause, on_resume, on_refresh_all call the label's methods
Pause == pc = "mainloop" /\ Becomes(pause(world))

Resume == pc = "mainloop" /\ tk.count < MaxTimers /\ Becomes(resume(world))

Refresh == pc = "mainloop" /\ tk.count < MaxTimers /\ Becomes(refresh(world))

LabelNext == Fire \/ Pause \/ Resume \/ Refresh

LabelSpec == LabelInit /\ [][LabelNext]_vars

----------------------------------------------------------------------------
\* One-day runs of a population that starts infected on the corners of areas
\* of several sides, for several movement bounds: the populations move_all
\* moves across the area and against its borders.

MoveInit ==
    /\ variant \in {"SIR", "SIS"}
    /\ width \in MoveSides
    /\ height \in MoveSides
    /\ number_of_people = MovePeople
    /\ num_infected = number_of_people
    /\ \E rates \in RatePairs : infect_rate = rates[1] /\ recover_rate = rates[2]
    /\ max_days = 0
    /\ arg_infect_distance = 2
    /\ arg_max_move \in MoveValues
    /\ Construct(Corners)

MoveSpec == MoveInit /\ [][Next]_vars

----------------------------------------------------------------------------
\* Properties

\* the agents in state st
InState(st) == {p \in 1..Len(people) : people[p].state = st}

\* the agents the infected list refers to
InfectedSet == {infected[k] : k \in 1..Len(infected)}

\* C1: right after step returns (SIR and SIS), the infected list holds exactly
\* the agents in state 'I', each once.
C1_InfectedListExact ==
    pc = "move" => /\ InfectedSet = InState("I")
                   /\ Len(infected) = Cardinality(InfectedSet)

\* C2: every entry of the agent-based trajectory adds up to number_of_people:
\* S + I + R in SIR, S + I in SIS.
C2_PopulationConserved ==
    /\ Len(simulated_S) = Len(simulated_I)
    /\ variant = "SIR" => Len(simulated_R) = Len(simulated_I)
    /\ \A d \in 1..Len(simulated_I) :
          simulated_S[d] + simulated_I[d]
            + (IF variant = "SIR" THEN simulated_R[d] ELSE 0) = number_of_people

\* C2 witness: a SIR run has recorded a day on which an agent had recovered
C2_Witness ==
    /\ variant = "SIR" /\ pc = "loop"
    /\ Len(simulated_I) >= 2 /\ Last(simulated_R) > 0 /\ Last(simulated_I) > 0

\* C3: whenever the run is at the head of the loop (after construction, and
\* after each recorded day), the last entry of each trajectory is the number of
\* agents in that state.
C3_TrajectoryIsTrueCount ==
    pc = "loop" =>
        /\ Last(simulated_I) = Cardinality(InState("I"))
        /\ Last(simulated_S) = Cardinality(InState("S"))
        /\ variant = "SIR" => Last(simulated_R) = Cardinality(InState("R"))

\* simulated_R never decreases from one entry to the next
NonDecreasing(s) == \A d \in 1..(Len(s) - 1) : s[d] <= s[d + 1]

\* C4: in SIR no step of the run (step, move_all, the appends) takes an agent
\* out of state 'R', and simulated_R stays a non-decreasing sequence that only
\* grows at its end.
C4_RecoveredIsPermanent ==
    [][variant = "SIR" =>
          /\ \A p \in 1..Len(people) :
                people[p].state = "R" => people'[p].state = "R"
          /\ \A d \in 1..Len(simulated_R) :
                Len(simulated_R') >= d /\ simulated_R'[d] = simulated_R[d]
          /\ NonDecreasing(simulated_R')]_vars

\* C4 witness: an agent recovered on the first day and a second day was run
C4_Witness ==
    /\ variant = "SIR" /\ Len(simulated_R) >= 3
    /\ simulated_R[2] >= 1 /\ InState("R") # {}

\* C5: every run leaves the loop: it does so at the first test of the while
\* condition at which the infected list is empty or step_count exceeds
\* max_days, and step is never executed more than max_days + 1 times.
C5_RunTerminates ==
    /\ [](step_count <= max_days + 1)
    /\ [][(pc = "loop" /\ (Len(infected) = 0 \/ step_count > max_days))
             => pc' = "done"]_vars
    /\ <>(pc = "done")

\* C5 witness: a run that the day cap ended, with agents still infected
C5_Witness ==
    pc = "done" /\ step_count = max_days + 1 /\ Len(infected) > 0

\* C6: step is executed at most max_days times and the trajectory has at most
\* max_days + 1 entries.
C6_MaxDaysIsCap ==
    /\ step_count <= max_days
    /\ Len(simulated_I) <= max_days + 1

\* C7: right after construction, for 0 <= num_infected <= number_of_people,
\* exactly num_infected agents are in state 'I' and the infected list has that
\* length.
C7_SeedCountMatches ==
    (pc = "loop" /\ step_count = 0 /\ num_infected <= number_of_people) =>
        /\ Cardinality(InState("I")) = num_infected
        /\ Len(infected) = num_infected

\* C8: with num_infected = 0 no agent is ever infected, step is never executed
\* and the trajectories stay [number_of_people], [0] (and [0] for R in SIR).
C8_ZeroSeedIsEmptyRun ==
    num_infected = 0 =>
        /\ InState("I") = {} /\ infected = <<>>
        /\ step_count = 0 /\ pc \in {"loop", "done"}
        /\ simulated_I = <<0>>
        /\ simulated_S = <<number_of_people>>
        /\ variant = "SIR" => simulated_R = <<0>>

\* C8 witness: a run with num_infected = 0 has ended
C8_Witness == num_infected = 0 /\ pc = "done" /\ number_of_people = MaxPeople

\* the configuration passes the validation the claim describes
ValidConfig ==
    /\ infect_rate \in 0..100 /\ recover_rate \in 0..100
    /\ width > 0 /\ height > 0
    /\ num_infected <= number_of_people

\* C9: for an invalid configuration no step and no move_all is executed and no
\* trajectory entry is appended.
C9_InvalidConfigRejected ==
    ~ValidConfig => /\ step_count = 0 /\ pc \in {"loop", "done"}
                    /\ Len(simulated_I) = 1

\* the agents step reaches from agent i by the 3x3 block scan and the distance
\* test, and those a scan over all agents yields
ReachedByGrid(i) ==
    LET cands == neighbors_of(people, populate_grid(people, infect_distance), i,
                              infect_distance)
    IN  {cands[k] : k \in 1..Len(cands)} \cap
            {p \in 1..Len(people) : InRange(people[i], people[p], infect_distance)}

ReachedByBruteForce(i) ==
    {p \in 1..Len(people) : InRange(people[i], people[p], infect_distance)}

\* C10: for every infected agent i, the agents closer than infect_distance
\* found in the 3x3 block of cells of size infect_distance around i are exactly
\* the agents closer than infect_distance among all agents.
C10_BlockScanIsExact ==
    \A i \in InState("I") : ReachedByGrid(i) = ReachedByBruteForce(i)

\* C10 witness: an infected agent has an agent in range in another cell and
\* an agent outside its 3x3 block
C10_Witness ==
    \E i \in InState("I") : \E p, q \in 1..Len(people) :
        LET cell(a) == get_cell(people[a].x, people[a].y, infect_distance)
            cands == neighbors_of(people, populate_grid(people, infect_distance), i,
                                  infect_distance)
        IN  /\ pc = "move"
            /\ cell(p) # cell(i) /\ p \in ReachedByGrid(i)
            /\ q \notin {cands[k] : k \in 1..Len(cands)}

\* the 'S' agents closer than infect_distance to an agent in state 'I'
InContact ==
    {p \in InState("S") :
        \E i \in InState("I") : InRange(people[i], people[p], infect_distance)}

\* C11: with infect_rate = 1.0 and recover_rate = 0.0 a call of step turns
\* exactly the 'S' agents closer than infect_distance to an agent that was 'I'
\* at the start of the step to 'I' and changes no other agent; the returned
\* list holds exactly the agents then in state 'I', each once, and the
\* recovered count is 0.
C11_FullTransmissionStep ==
    [][(pc = "loop" /\ pc' = "move" /\ infect_rate = 100 /\ recover_rate = 0) =>
          /\ Len(people') = Len(people)
          /\ \A p \in 1..Len(people) :
                people'[p] = IF p \in InContact
                             THEN [people[p] EXCEPT !.state = "I"]
                             ELSE people[p]
          /\ {infected'[k] : k \in 1..Len(infected')} = InState("I") \cup InContact
          /\ Len(infected') = Cardinality(InState("I") \cup InContact)
          /\ recovered_amount' = 0]_vars

\* C11 witness: after such a step an agent is still 'S' although it is closer
\* than infect_distance to an agent in state 'I': that agent was infected
\* during the step and did not transmit in it
C11_Witness ==
    /\ pc = "move" /\ infect_rate = 100 /\ recover_rate = 0
    /\ InContact # {}

\* C12: in SIR with infect_rate = 0 and recover_rate = 1.0, a call of step
\* turns every agent that was 'I' to 'R' and changes no other agent, returns
\* an empty infected list and the number of those agents as recovered count;
\* the run loop then appends that number as R_1 and leaves the loop at its
\* next test.
C12_FullRecoveryStep ==
    [][(variant = "SIR" /\ infect_rate = 0 /\ recover_rate = 100) =>
          /\ (pc = "loop" /\ pc' = "move") =>
                /\ Len(people') = Len(people)
                /\ \A p \in 1..Len(people) :
                      people'[p] = IF p \in InState("I")
                                   THEN [people[p] EXCEPT !.state = "R"]
                                   ELSE people[p]
                /\ infected' = <<>>
                /\ recovered_amount' = Cardinality(InState("I"))
          /\ pc = "record" =>
                /\ simulated_R' = <<0, Cardinality(InState("R"))>>
                /\ simulated_I' = <<num_infected, 0>>
          /\ (pc = "loop" /\ step_count >= 1) => pc' = "done"]_vars

\* C12 witness: such a step has turned two agents to 'R' and left an agent on
\* the position of one of them 'S'
C12_Witness ==
    /\ variant = "SIR" /\ infect_rate = 0 /\ recover_rate = 100
    /\ pc = "move" /\ recovered_amount = 2 /\ infected = <<>>
    /\ \E s \in InState("S"), r \in InState("R") :
          people[s].x = people[r].x /\ people[s].y = people[r].y

\* C14: when the run has ended, the compartmental trajectory has as many
\* entries as each agent-based trajectory: step_count + 1, in SIR and in SIS.
C14_TrajectoriesSameLength ==
    pc = "done" =>
        /\ model_length = step_count + 1
        /\ Len(simulated_S) = model_length
        /\ Len(simulated_I) = model_length
        /\ variant = "SIR" => Len(simulated_R) = model_length

\* C14 witness: a SIS run has ended after two days
C14_Witness == pc = "done" /\ variant = "SIS" /\ step_count = 2

\* the fraction f is the integer m
IsInteger(f, m) == f.n = m * f.d

\* the fraction g is the fraction f plus one
OneApart(f, g) == (g.n * f.d) - (f.n * g.d) = f.d * g.d

\* C20: the compartmental model is solved at the whole days 0, 1, ...,
\* step_count: the last time point is the number of days run and consecutive
\* time points are one day apart, so that sample k is the model at the day of
\* entry k of the agent-based trajectory.
C20_ModelGridIsWholeDays ==
    pc = "done" =>
        /\ IsInteger(t[Len(t)], step_count)
        /\ \A k \in 1..(Len(t) - 1) : OneApart(t[k], t[k + 1])
        /\ \A k \in 1..Len(t) : IsInteger(t[k], k - 1)

\* C15: in a SIS run the infect_distance that step, the grid and the
\* compartmental model read and the max_move that move_all reads are the
\* arguments the caller passed.
C15_SISHonoursArguments ==
    variant = "SIS" =>
        /\ infect_distance = arg_infect_distance
        /\ max_move = arg_max_move

\* C16: in SIS, when step has returned, every agent that recovered during it
\* is 'S' and is not in the returned infected list.
C16_RecoveredIsSusceptibleThatDay ==
    (variant = "SIS" /\ pc = "move") =>
        \A k \in 1..Len(recover) :
            /\ people[recover[k]].state = "S"
            /\ recover[k] \notin InfectedSet

\* the orderings of the infected list
Orderings(inf) ==
    {o \in [1..Len(inf) -> {inf[k] : k \in 1..Len(inf)}] :
        \A j, k \in 1..Len(inf) : o[j] = o[k] => j = k}

\* the numbers of 'S', 'I' and 'R' agents of a population
Counts(ppl) ==
    [st \in {"S", "I", "R"} |-> Cardinality({p \in 1..Len(ppl) : ppl[p].state = st})]

\* C17: with infect_rate and recover_rate each 0 or 1 (every trial's outcome
\* is fixed), step leaves the same numbers of 'S', 'I' and 'R' agents whatever
\* the order of the infected list it is given, in SIR and in SIS.
C17_OrderDoesNotChangeCounts ==
    (pc = "loop" /\ LoopCondition
        /\ infect_rate \in {0, 100} /\ recover_rate \in {0, 100}) =>
        \A o \in Orderings(infected) :
            {Counts(r.people) : r \in StepOutcomes(people, o, infect_distance)}
              = {Counts(r.people) : r \in StepOutcomes(people, infected, infect_distance)}

\* c brought into [lo, hi]
Into(c, lo, hi) == IF c < lo THEN lo ELSE IF c > hi THEN hi ELSE c

\* coordinate c2 is coordinate c moved by an offset of [-max_move, max_move]
\* and brought into [1, dim - 1]
MovedAndClamped(c, c2, dim) ==
    \E off \in (0 - max_move)..max_move : c2 = Into(c + off, 1, dim - 1)

\* a day has been executed: step and move_all have run
DayExecuted == step_count >= 1 /\ pc \in {"record", "loop", "done"}

\* C18 as stated: move_all runs after step, moves each coordinate of every
\* agent by an offset of [-max_move, max_move] clamped into [1, dimension - 1]
\* and changes no state, and after any executed day every agent has x in
\* [1, width - 1] and y in [1, height - 1].
C18_MoveClampsIntoInterior ==
    /\ [][pc = "move" =>
            /\ step_count >= 1 /\ Len(people') = Len(people)
            /\ \A p \in 1..Len(people) :
                  /\ people'[p].state = people[p].state
                  /\ MovedAndClamped(people[p].x, people'[p].x, width)
                  /\ MovedAndClamped(people[p].y, people'[p].y, height)]_vars
    /\ [](DayExecuted =>
            \A p \in 1..Len(people) :
                /\ people[p].x \in 1..(width - 1)
                /\ people[p].y \in 1..(height - 1))

\* C18 amended: the same for every dimension of at least 2; a coordinate
\* whose dimension is 1 is 0 after any executed day.
C18_MoveClampsWhereRoom ==
    /\ [][pc = "move" =>
            /\ step_count >= 1 /\ Len(people') = Len(people)
            /\ \A p \in 1..Len(people) :
                  /\ people'[p].state = people[p].state
                  /\ width >= 2 => MovedAndClamped(people[p].x, people'[p].x, width)
                  /\ height >= 2 => MovedAndClamped(people[p].y, people'[p].y, height)]_vars
    /\ [](DayExecuted =>
            \A p \in 1..Len(people) :
                /\ people[p].x \in (IF width >= 2 THEN 1..(width - 1) ELSE {0})
                /\ people[p].y \in (IF height >= 2 THEN 1..(height - 1) ELSE {0}))

\* C18 witness: on an area of side greater than 2 an agent that started on
\* the corner (0, 0) has been moved to x = 1 (clamped from below or moved by
\* one) and further than 1 in y, and was not infected any more when it moved
C18_Witness ==
    /\ pc = "record" /\ width > 2 /\ height > 2
    /\ \E p \in 1..Len(people) :
          people[p].state # "I" /\ people[p].x = 1 /\ people[p].y > 2

\* C19: in every state of a run every agent has 0 <= x < width and
\* 0 <= y < height.
C19_PositionsInsideArea ==
    \A p \in 1..Len(people) :
        /\ 0 <= people[p].x /\ people[p].x < width
        /\ 0 <= people[p].y /\ people[p].y < height

\* the state changes the variant allows: S -> I and I -> R in SIR, S -> I and
\* I -> S in SIS
Edges ==
    IF variant = "SIR" THEN {<<"S", "I">>, <<"I", "R">>}
    ELSE {<<"S", "I">>, <<"I", "S">>}

\* C21: the population always has number_of_people agents, and an agent's
\* state changes only in step, once per day, along an edge of the variant's
\* topology (move_all and the appends change no state): from the end of one
\* day to the end of the next it never goes S -> R or, in SIR, I -> S.
C21_StateFollowsTopology ==
    /\ [](Len(people) = number_of_people)
    /\ [][\A p \in 1..Len(people) :
             \/ people'[p].state = people[p].state
             \/ /\ pc = "loop" /\ pc' = "move"
                /\ <<people[p].state, people'[p].state>> \in Edges]_vars

\* C21 witness: in a SIR run an agent recovered on the first day and another
\* in the step of the second day, after which an agent is still 'I'
C21_Witness ==
    /\ variant = "SIR" /\ pc = "move" /\ step_count = 2
    /\ simulated_R[2] >= 1 /\ recover # <<>>
    /\ InState("I") # {}

\* C22: step leaves every agent's x and y unchanged; move_all leaves every
\* agent's state, the infected list and the recorded trajectories unchanged.
C22_PhasesTouchDisjointState ==
    [][/\ (pc = "loop" /\ pc' = "move") =>
             /\ Len(people') = Len(people)
             /\ \A p \in 1..Len(people) :
                   people'[p].x = people[p].x /\ people'[p].y = people[p].y
       /\ pc = "move" =>
             /\ Len(people') = Len(people)
             /\ \A p \in 1..Len(people) : people'[p].state = people[p].state
             /\ infected' = infected
             /\ simulated_S' = simulated_S
             /\ simulated_I' = simulated_I
             /\ simulated_R' = simulated_R]_vars

\* C22 witness: on the first day step changed a state and move_all then
\* moved an agent off the corner it was constructed on
C22_Witness ==
    /\ pc = "record" /\ width = 2 /\ step_count = 1
    /\ recover # <<>> /\ infected # <<>>
    /\ \E p \in 1..Len(people) : people[p].x = 1 /\ people[p].y = 1

C24_OneTimerWhenPlaying ==
    /\ [](/\ ~label.is_paused => Cardinality(tk.scheduled) = 1
          /\ label.is_paused => tk.scheduled = {}
          /\ label.current_frame \in 0..(Len(label.frames) - 1))
    /\ [][(label.is_paused /\ label'.is_paused) =>
             label'.current_frame = label.current_frame]_vars

\* C24 witness: a label that has advanced, was paused and resumed, and is
\* paused again on a frame other than the first
C24_Witness ==
    /\ pc = "mainloop" /\ label.is_paused
    /\ tk.count >= 3 /\ label.current_frame >= 1
====
